---- MODULE Spec2Model ----
(***************************************************************************)
(* VelocityCache (src/cache/core.py): a thread-safe in-memory cache with   *)
(* LRU eviction and per-entry TTL.  The OrderedDict is a sequence of       *)
(* entries, oldest first.  Every public method is a call by a thread:      *)
(* argument validation outside the lock, then the body under the RLock.    *)
(* The lock serialises the bodies, so a body is one step; the body of set  *)
(* that evicts is two steps (eviction, insertion) with the lock held in    *)
(* between, which makes the state between them a state of the model.       *)
(***************************************************************************)
EXTENDS Integers, Sequences, FiniteSets, TLC

(* ---------------------------- bounds ----------------------------------- *)
NumThreads == 2
MaxCalls == 3
MaxTime == 1
MaxMaxSize == 2
MaxRounds == 2
MaxCount == 6

(* ---------------------------- Python values ---------------------------- *)
\* Optional[...] : None is the empty tuple, an int n is <<n>>.
None == <<>>
Some(x) == <<x>>

Threads == 1..NumThreads
Keys == {"", "a", "b", "c"}
Values == {None, Some(1)}
TTLs == {None, Some(-1), Some(0)}

\* cache, max_size, lock, hits, misses, evictions, expirations: the fields
\* of the instance (lock: 0 when free, else the thread that holds it)
\* now:    the value time.time() returns
\* op:     per thread, the frame of its call in progress (NoOp when idle)
\* last:   the most recent call that returned or raised
\* pre:    the guarded state when the lock was last acquired
\* ncalls: the number of calls made so far
\* wk:     per thread, the locals of the test's worker function
\* tally:  how many calls of each kind have returned (a history of the run,
\*         no field of the instance)
VARIABLES cache, max_size, lock, hits, misses, evictions, expirations,
          now, op, last, pre, ncalls, wk, tally

vars == <<cache, max_size, lock, hits, misses, evictions, expirations,
          now, op, last, pre, ncalls, wk, tally>>

(* ---------------------------- OrderedDict ------------------------------ *)
Entry(k, v, e) == [key |-> k, value |-> v, expiry_time |-> e]

KeyList(c) == [i \in 1..Len(c) |-> c[i].key]

InCache(c, k) == \E i \in 1..Len(c) : c[i].key = k

IndexOf(c, k) == CHOOSE i \in 1..Len(c) : c[i].key = k

Lookup(c, k) == c[IndexOf(c, k)]

RemoveAt(c, i) == [j \in 1..(Len(c) - 1) |-> IF j < i THEN c[j] ELSE c[j + 1]]

DelKey(c, k) == RemoveAt(c, IndexOf(c, k))

\* faulty variant: the key keeps its position
move_to_endMut(c, k) == c

\* self._cache.move_to_end(key)
move_to_end(c, k) == Append(DelKey(c, k), Lookup(c, k))

\* self._cache[key] = item : in place for a stored key, appended for a new one
SetItem(c, k, v, e) ==
    IF InCache(c, k)
    THEN [c EXCEPT ![IndexOf(c, k)] = Entry(k, v, e)]
    ELSE Append(c, Entry(k, v, e))

\* faulty variant: pops the newest entry (last=True)
popitem_firstMut(c) == SubSeq(c, 1, Len(c) - 1)

\* self._cache.popitem(last=False)
popitem_first(c) == Tail(c)

\* faulty variant: expired already at the expiry time itself
IsExpiredMut(e, t) == e # None /\ t >= e[1]

\* faulty variant: no expiry counts as expired
IsExpiredNoneMut(e, t) == e = None \/ t > e[1]

\* expiry_time is not None and time.time() > expiry_time
IsExpired(e, t) == e # None /\ t > e[1]

\* faulty variant: evicts only above capacity
AtCapacityMut(c, m) == Len(c) > m

\* len(self._cache) >= self._max_size
AtCapacity(c, m) == Len(c) >= m

\* expiry_time = None; if ttl is not None: expiry_time = time.time() + ttl
ExpiryOf(ttl, t) == IF ttl = None THEN None ELSE Some(t + ttl[1])

(* ---------------------------- call frames ------------------------------ *)
\* a frame holds the method, its arguments and two locals: expiry_time (set)
\* and clock, the value of time.time() in the expiry check when it was called
NoOp == [name |-> "none", key |-> "", value |-> None, ttl |-> None,
         expiry_time |-> None, clock |-> None]
Call(n, k, v, l) == [name |-> n, key |-> k, value |-> v, ttl |-> l,
                     expiry_time |-> None, clock |-> None]

NoRet == [tag |-> "none", val |-> None]
RetObject(v) == [tag |-> "object", val |-> v]
RetBool(b) == [tag |-> "bool", val |-> b]
RaiseValueError == [tag |-> "raise", val |-> "ValueError"]

\* a finished call: the frame, what came back, and whether the body ran under
\* the lock (held) or the call ended in the validation
NoLast == [op |-> NoOp, ret |-> NoRet, held |-> FALSE]
Finished(c, r, h) == [op |-> c, ret |-> r, held |-> h]

NoPre == [cache |-> <<>>, hits |-> 0, misses |-> 0, evictions |-> 0,
          expirations |-> 0]
Snapshot == [cache |-> cache, hits |-> hits, misses |-> misses,
             evictions |-> evictions, expirations |-> expirations]

\* a thread that does not run the worker function
NoWorker == [pc |-> "none", round |-> 0, item |-> None, results |-> <<>>,
             errors |-> <<>>]

\* gets: returned get calls that passed the validation; inserts: returned
\* set calls of a key that was not stored; live_deletes: returned delete calls
\* that removed an entry not past its expiry; cleared: entries removed by
\* returned clear calls
NoTally == [gets |-> 0, inserts |-> 0, live_deletes |-> 0, cleared |-> 0]

\* the tally once the call c, whose body started in state S, has returned
Tally(c, S) ==
    LET stored == InCache(S.cache, c.key)
        past == /\ stored
                /\ c.clock # None
                /\ IsExpired(Lookup(S.cache, c.key).expiry_time, c.clock[1])
    IN [tally EXCEPT
          !.gets = IF c.name = "get" THEN @ + 1 ELSE @,
          !.inserts = IF c.name = "set" /\ ~stored THEN @ + 1 ELSE @,
          !.live_deletes = IF c.name = "delete" /\ stored /\ ~past
                           THEN @ + 1 ELSE @,
          !.cleared = IF c.name = "clear" THEN @ + Len(S.cache) ELSE @]

(* ---------------------------- initial state ---------------------------- *)
\* the values passed as max_size
CtorArgs == -1..MaxMaxSize

\* faulty variant: only a negative max_size is refused
VelocityCacheMut(m) ==
    IF m < 0
    THEN RaiseValueError
    ELSE [tag |-> "instance", max_size |-> m, cache |-> <<>>, lock |-> 0,
          hits |-> 0, misses |-> 0, evictions |-> 0, expirations |-> 0]

\* VelocityCache(max_size=m): __init__, lines 37-50
VelocityCache(m) ==
    IF m <= 0
    THEN RaiseValueError
    ELSE [tag |-> "instance", max_size |-> m, cache |-> <<>>, lock |-> 0,
          hits |-> 0, misses |-> 0, evictions |-> 0, expirations |-> 0]

\* the fields are those of the constructed instance self
Constructed(self) ==
    /\ self.tag = "instance"
    /\ max_size = self.max_size
    /\ cache = self.cache
    /\ lock = self.lock
    /\ hits = self.hits /\ misses = self.misses
    /\ evictions = self.evictions /\ expirations = self.expirations

Init ==
    /\ \E m \in CtorArgs : Constructed(VelocityCache(m))
    /\ now = 0
    /\ op = [t \in Threads |-> NoOp]
    /\ last = NoLast
    /\ pre = NoPre
    /\ ncalls = 0
    /\ wk = [t \in Threads |-> NoWorker]
    /\ tally = NoTally

\* `expiry_time is not None and time.time() > expiry_time` calls time.time()
\* only for a stored key whose expiry_time is not None
ClockRead(c, k, t) ==
    IF InCache(c, k) /\ Lookup(c, k).expiry_time # None THEN Some(t) ELSE None

(* ---------------------------- method bodies --------------------------- *)
\* The statements executed while the lock is held, as functions of the
\* guarded state S (a Snapshot), the arguments and the value of time.time().
Result(S, r) == [st |-> S, ret |-> r]

\* faulty variant: an expired entry is removed without counting an expiration
get_bodyMut(S, k, t) ==
    IF ~InCache(S.cache, k)
    THEN Result([S EXCEPT !.misses = @ + 1], RetObject(None))
    ELSE IF IsExpired(Lookup(S.cache, k).expiry_time, t)
    THEN Result([S EXCEPT !.cache = DelKey(S.cache, k),
                          !.misses = @ + 1], RetObject(None))
    ELSE Result([S EXCEPT !.cache = move_to_end(S.cache, k),
                          !.hits = @ + 1],
                RetObject(Lookup(S.cache, k).value))

\* get, lines 70-86
get_body(S, k, t) ==
    IF ~InCache(S.cache, k)
    THEN Result([S EXCEPT !.misses = @ + 1], RetObject(None))
    ELSE IF IsExpired(Lookup(S.cache, k).expiry_time, t)
    THEN Result([S EXCEPT !.cache = DelKey(S.cache, k),
                          !.misses = @ + 1,
                          !.expirations = @ + 1], RetObject(None))
    ELSE Result([S EXCEPT !.cache = move_to_end(S.cache, k),
                          !.hits = @ + 1],
                RetObject(Lookup(S.cache, k).value))

\* faulty variant: no expiry check on the removed entry
delete_bodyMut(S, k, t) ==
    IF ~InCache(S.cache, k)
    THEN Result(S, RetObject(None))
    ELSE Result([S EXCEPT !.cache = DelKey(S.cache, k)],
                RetObject(Lookup(S.cache, k).value))

\* delete, lines 143-154
delete_body(S, k, t) ==
    IF ~InCache(S.cache, k)
    THEN Result(S, RetObject(None))
    ELSE IF IsExpired(Lookup(S.cache, k).expiry_time, t)
    THEN Result([S EXCEPT !.cache = DelKey(S.cache, k),
                          !.expirations = @ + 1], RetObject(None))
    ELSE Result([S EXCEPT !.cache = DelKey(S.cache, k)],
                RetObject(Lookup(S.cache, k).value))

\* faulty variant: exists counts a hit or a miss, as get does
exists_bodyCountMut(S, k, t) ==
    IF ~InCache(S.cache, k)
    THEN Result([S EXCEPT !.misses = @ + 1], RetBool(FALSE))
    ELSE IF IsExpired(Lookup(S.cache, k).expiry_time, t)
    THEN Result([S EXCEPT !.cache = DelKey(S.cache, k),
                          !.misses = @ + 1,
                          !.expirations = @ + 1], RetBool(FALSE))
    ELSE Result([S EXCEPT !.hits = @ + 1], RetBool(TRUE))

\* faulty variant: a live key is moved to the end, as get does
exists_bodyMut(S, k, t) ==
    IF ~InCache(S.cache, k)
    THEN Result(S, RetBool(FALSE))
    ELSE IF IsExpired(Lookup(S.cache, k).expiry_time, t)
    THEN Result([S EXCEPT !.cache = DelKey(S.cache, k),
                          !.expirations = @ + 1], RetBool(FALSE))
    ELSE Result([S EXCEPT !.cache = move_to_end(S.cache, k)], RetBool(TRUE))

\* exists, lines 173-184
exists_body(S, k, t) ==
    IF ~InCache(S.cache, k)
    THEN Result(S, RetBool(FALSE))
    ELSE IF IsExpired(Lookup(S.cache, k).expiry_time, t)
    THEN Result([S EXCEPT !.cache = DelKey(S.cache, k),
                          !.expirations = @ + 1], RetBool(FALSE))
    ELSE Result(S, RetBool(TRUE))

\* faulty variant: a stored key is moved to the end
contains_bodyMut(S, k) ==
    IF InCache(S.cache, k)
    THEN Result([S EXCEPT !.cache = move_to_end(S.cache, k)], RetBool(TRUE))
    ELSE Result(S, RetBool(FALSE))

\* __contains__, line 252
contains_body(S, k) == Result(S, RetBool(InCache(S.cache, k)))

\* faulty variant: size() first sweeps the entries that carry an expiry
size_bodyMut(S) ==
    LET live == SelectSeq(S.cache, LAMBDA x : x.expiry_time = None)
    IN Result([S EXCEPT !.cache = live,
                        !.expirations = @ + Len(S.cache) - Len(live)],
              [tag |-> "int", val |-> Len(live)])

\* size, line 195
size_body(S) == Result(S, [tag |-> "int", val |-> Len(S.cache)])

\* faulty variant: clear() also resets the counters
clear_bodyMut(S) ==
    Result([S EXCEPT !.cache = <<>>, !.hits = 0, !.misses = 0,
                     !.evictions = 0, !.expirations = 0], RetObject(None))

\* clear, line 203
clear_body(S) == Result([S EXCEPT !.cache = <<>>], RetObject(None))

\* keys, line 216
keys_body(S) == Result(S, [tag |-> "list", val |-> KeyList(S.cache)])

\* faulty variant: an overwritten entry that carried an expiry is counted as
\* an expiration
set_updateMut(S, k, v, e) ==
    [S EXCEPT !.cache = move_to_end(SetItem(S.cache, k, v, e), k),
              !.expirations = IF Lookup(S.cache, k).expiry_time # None
                              THEN @ + 1 ELSE @]

\* set, lines 113-116: the key is stored
set_update(S, k, v, e) ==
    [S EXCEPT !.cache = move_to_end(SetItem(S.cache, k, v, e), k)]

\* faulty variant: an evicted entry that carries an expiry is counted as an
\* expiration too
set_evictBothMut(S) ==
    [S EXCEPT !.cache = popitem_first(S.cache),
              !.evictions = @ + 1,
              !.expirations = IF S.cache[1].expiry_time # None
                              THEN @ + 1 ELSE @]

\* faulty variant: an entry that carries an expiry is evicted first
set_evictMut(S) ==
    LET timed == {i \in 1..Len(S.cache) : S.cache[i].expiry_time # None}
        victim == IF timed = {} THEN 1
                  ELSE CHOOSE i \in timed : \A j \in timed : i <= j
    IN [S EXCEPT !.cache = RemoveAt(S.cache, victim), !.evictions = @ + 1]

\* set, lines 121-122: the key is new and the cache is full
set_evict(S) ==
    [S EXCEPT !.cache = popitem_first(S.cache), !.evictions = @ + 1]

\* set, line 123
set_insert(S, k, v, e) == [S EXCEPT !.cache = SetItem(S.cache, k, v, e)]

\* "0" .. "9"
DigitChar(d) == <<"0", "1", "2", "3", "4", "5", "6", "7", "8", "9">>[d + 1]

\* the decimal digits of a natural number, as str() writes them
RECURSIVE Digits(_)
Digits(n) ==
    IF n < 10 THEN <<DigitChar(n)>>
    ELSE Append(Digits(n \div 10), DigitChar(n % 10))

\* the number of bits in the significand of a Python float (a C double)
Precision == 53

\* a float above 0 is man * 2^exp: man its significand as Precision binary
\* digits, the first of them 1 and the first in the sequence
Float(man, exp) == [man |-> man, exp |-> exp]

\* the float 0.0
Zero == [man |-> <<>>, exp |-> 0]

\* -1, 0 or 1 as a is below, equal to or above b
Compare(a, b) == IF a > b THEN 1 ELSE IF a = b THEN 0 ELSE -1

\* the digits cut off a binary number against half a unit of the last digit
\* kept: -1 below half, 0 exactly half, 1 above half
TailCompare(tail) ==
    IF tail = <<>> \/ tail[1] = 0 THEN -1
    ELSE IF \E i \in 2..Len(tail) : tail[i] = 1 THEN 1
    ELSE 0

\* faulty variant: the digits cut off are dropped
RoundsUpMut(c, odd) == FALSE

\* round to nearest, a tie to the even neighbour: the rounding of float
\* arithmetic and of the format specification .2f
RoundsUp(c, odd) == c > 0 \/ (c = 0 /\ odd)

\* the binary digits of a natural number, none for 0
RECURSIVE NatBits(_)
NatBits(n) ==
    IF n = 0 THEN <<>> ELSE Append(NatBits(n \div 2), n % 2)

\* the natural number that binary digits write
RECURSIVE BitsValue(_)
BitsValue(bits) ==
    IF bits = <<>> THEN 0
    ELSE IF Len(bits) = 1 THEN bits[1]
    ELSE LET half == Len(bits) \div 2
         IN BitsValue(SubSeq(bits, 1, half)) * 2 ^ (Len(bits) - half)
               + BitsValue(SubSeq(bits, half + 1, Len(bits)))

\* a sequence back to front
Reverse(s) == [i \in 1..Len(s) |-> s[Len(s) + 1 - i]]

\* a binary number plus one: the digits after its last 0 become 0 and that
\* 0 becomes 1
Increment(bits) ==
    LET zeros == {i \in 1..Len(bits) : bits[i] = 0}
        last0 == IF zeros = {} THEN 0
                 ELSE CHOOSE i \in zeros : \A j \in zeros : j <= i
    IN SubSeq(bits, 1, last0 - 1) \o <<1>>
          \o [i \in 1..(Len(bits) - last0) |-> 0]

\* the digits of a binary number, the last digit first, times the small
\* number c, plus carry: as many digits as there were, and the carry out of
\* the first digit
RECURSIVE MulPart(_, _, _)
MulPart(stib, c, carry) ==
    IF stib = <<>> THEN [stib |-> <<>>, carry |-> carry]
    ELSE IF Len(stib) = 1
    THEN LET v == stib[1] * c + carry
         IN [stib |-> <<v % 2>>, carry |-> v \div 2]
    ELSE LET half == Len(stib) \div 2
             low == MulPart(SubSeq(stib, 1, half), c, carry)
             high == MulPart(SubSeq(stib, half + 1, Len(stib)), c, low.carry)
         IN [stib |-> low.stib \o high.stib, carry |-> high.carry]

\* a binary number times the small number c, plus carry
MulSmall(bits, c, carry) ==
    LET p == MulPart(Reverse(bits), c, carry)
    IN NatBits(p.carry) \o Reverse(p.stib)

\* the next n binary digits of r / d, r < d, and the remainder left
RECURSIVE LongDiv(_, _, _)
LongDiv(r, d, n) ==
    IF n = 0 THEN [bits |-> <<>>, rem |-> r]
    ELSE IF n = 1
    THEN LET b == IF 2 * r >= d THEN 1 ELSE 0
         IN [bits |-> <<b>>, rem |-> 2 * r - b * d]
    ELSE LET first == LongDiv(r, d, n \div 2)
             rest == LongDiv(first.rem, d, n - n \div 2)
         IN [bits |-> first.bits \o rest.bits, rem |-> rest.rem]

\* the least k with h * 2^k >= t, for 0 < h <= t < 2^30
Shift(h, t) ==
    CHOOSE k \in 0..30 : /\ h > (t - 1) \div 2 ^ k
                         /\ k > 0 => h <= (t - 1) \div 2 ^ (k - 1)

\* the float nearest to man * 2^exp with c the comparison of what was cut
\* off man
Round(man, exp, c) ==
    IF ~RoundsUp(c, man[Len(man)] = 1) THEN Float(man, exp)
    ELSE LET up == Increment(man)
         IN IF Len(up) > Precision
            THEN Float(SubSeq(up, 1, Precision), exp + 1)
            ELSE Float(up, exp)

\* stats, line 226: self._hits / total_ops, the float nearest to the
\* quotient of the two ints, 0 <= h <= t and t > 0
truediv(h, t) ==
    IF h = 0 THEN Zero
    ELSE LET k == Shift(h, t)
             q == LongDiv(h * 2 ^ k - t, t, Precision - 1)
         IN Round(<<1>> \o q.bits, 0 - k - (Precision - 1),
                  Compare(2 * q.rem, t))

\* stats, line 226: ... * 100, the float nearest to the product
TimesHundred(x) ==
    IF x = Zero THEN Zero
    ELSE LET b == MulSmall(x.man, 100, 0)
             tail == SubSeq(b, Precision + 1, Len(b))
         IN Round(SubSeq(b, 1, Precision), x.exp + Len(tail),
                  TailCompare(tail))

\* stats, line 233: the format specification .2f, as the number of
\* hundredths it prints: the float's exact value times 100, rounded
Hundredths(x) ==
    IF x = Zero THEN 0
    ELSE LET b == MulSmall(x.man, 100, 0)
             f == 0 - x.exp
         IN IF f > Len(b) THEN 0
            ELSE LET q == BitsValue(SubSeq(b, 1, Len(b) - f))
                     c == TailCompare(SubSeq(b, Len(b) - f + 1, Len(b)))
                 IN IF RoundsUp(c, q % 2 = 1) THEN q + 1 ELSE q

\* stats, lines 225-226 and 233: f"{hit_rate:.2f}%" as its characters
HitRateText(h, m) ==
    LET total_ops == h + m
        hit_rate == IF total_ops > 0 THEN TimesHundred(truediv(h, total_ops))
                    ELSE Zero
        cents == Hundredths(hit_rate)
    IN Digits(cents \div 100)
       \o <<".", DigitChar((cents % 100) \div 10), DigitChar(cents % 10), "%">>

\* stats, lines 224-236
stats_body(S, m) ==
    Result(S, [tag |-> "dict",
               val |-> [hits |-> S.hits, misses |-> S.misses,
                        evictions |-> S.evictions,
                        expirations |-> S.expirations,
                        hit_rate |-> HitRateText(S.hits, S.misses),
                        size |-> Len(S.cache), max_size |-> m]])

\* set, lines 113-123 as a whole, with expiry_time e already computed
set_body(S, k, v, e, m) ==
    IF InCache(S.cache, k)
    THEN Result(set_update(S, k, v, e), RetObject(None))
    ELSE IF AtCapacity(S.cache, m)
    THEN Result(set_insert(set_evict(S), k, v, e), RetObject(None))
    ELSE Result(set_insert(S, k, v, e), RetObject(None))

(* ---------------------------- actions ---------------------------------- *)
Store(S) ==
    /\ cache' = S.cache
    /\ hits' = S.hits
    /\ misses' = S.misses
    /\ evictions' = S.evictions
    /\ expirations' = S.expirations

\* `with self._lock:` around a body that runs to its return in one step.  A
\* caller blocked on the RLock has changed nothing, so the step is enabled
\* when no thread holds the lock; the lock is free again after it.
Locked(t, c, r) ==
    /\ lock = 0
    /\ pre' = Snapshot
    /\ Store(r.st)
    /\ last' = Finished(c, r.ret, TRUE)
    /\ ncalls' = ncalls + 1
    /\ tally' = Tally(c, Snapshot)
    /\ UNCHANGED <<max_size, lock, now, op, wk>>

\* faulty variant: a refused call is counted as a miss
EarlyMut(t, c, r) ==
    /\ last' = Finished(c, r, FALSE)
    /\ ncalls' = ncalls + 1
    /\ misses' = misses + 1
    /\ UNCHANGED <<cache, max_size, lock, hits, evictions,
                   expirations, now, op, pre, wk, tally>>

\* a call that returns or raises before `with self._lock`
Early(t, c, r) ==
    /\ last' = Finished(c, r, FALSE)
    /\ ncalls' = ncalls + 1
    /\ UNCHANGED <<cache, max_size, lock, hits, misses, evictions,
                   expirations, now, op, pre, wk, tally>>

CanCall(t) == op[t] = NoOp /\ ncalls < MaxCalls

\* get, lines 52-86
GetCall(t) ==
    /\ CanCall(t)
    /\ \E k \in Keys :
          IF k = ""
          THEN Early(t, Call("get", k, None, None), RaiseValueError)
          ELSE Locked(t, [Call("get", k, None, None)
                             EXCEPT !.clock = ClockRead(cache, k, now)],
                      get_body(Snapshot, k, now))

\* delete, lines 125-154
DeleteCall(t) ==
    /\ CanCall(t)
    /\ \E k \in Keys :
          IF k = ""
          THEN Early(t, Call("delete", k, None, None), RaiseValueError)
          ELSE Locked(t, [Call("delete", k, None, None)
                             EXCEPT !.clock = ClockRead(cache, k, now)],
                      delete_body(Snapshot, k, now))

\* exists, lines 156-184
ExistsCall(t) ==
    /\ CanCall(t)
    /\ \E k \in Keys :
          IF k = ""
          THEN Early(t, Call("exists", k, None, None), RetBool(FALSE))
          ELSE Locked(t, [Call("exists", k, None, None)
                             EXCEPT !.clock = ClockRead(cache, k, now)],
                      exists_body(Snapshot, k, now))

\* __contains__, lines 238-252
ContainsCall(t) ==
    /\ CanCall(t)
    /\ \E k \in Keys :
          Locked(t, Call("contains", k, None, None), contains_body(Snapshot, k))

\* size, lines 186-195
SizeCall(t) ==
    CanCall(t) /\ Locked(t, Call("size", "", None, None), size_body(Snapshot))

\* clear, lines 197-203
ClearCall(t) ==
    CanCall(t) /\ Locked(t, Call("clear", "", None, None), clear_body(Snapshot))

\* keys, lines 205-216
KeysCall(t) ==
    CanCall(t) /\ Locked(t, Call("keys", "", None, None), keys_body(Snapshot))

\* stats, lines 218-236
StatsCall(t) ==
    CanCall(t)
    /\ Locked(t, Call("stats", "", None, None), stats_body(Snapshot, max_size))

\* set, lines 119-122: the lock is taken, the oldest entry is popped and
\* counted; the thread still has line 123 to run
Evict(t, c) ==
    /\ lock = 0
    /\ lock' = t
    /\ pre' = Snapshot
    /\ Store(set_evict(Snapshot))
    /\ op' = [op EXCEPT ![t] = c]
    /\ ncalls' = ncalls + 1
    /\ UNCHANGED <<max_size, now, last, wk, tally>>

\* set, lines 88-123, up to the return or up to the eviction
SetCall(t) ==
    /\ CanCall(t)
    /\ \E k \in Keys, v \in Values, l \in TTLs :
          LET c == [Call("set", k, v, l) EXCEPT !.expiry_time = ExpiryOf(l, now)]
          IN IF k = "" \/ (l # None /\ l[1] < 0)
             THEN Early(t, Call("set", k, v, l), RaiseValueError)
             ELSE IF InCache(cache, k)
             THEN Locked(t, c, Result(set_update(Snapshot, k, v, c.expiry_time),
                                      RetObject(None)))
             ELSE IF AtCapacity(cache, max_size)
             THEN Evict(t, c)
             ELSE Locked(t, c, Result(set_insert(Snapshot, k, v, c.expiry_time),
                                      RetObject(None)))

\* set, line 123 after an eviction, and the release of the lock
SetInsert(t) ==
    /\ lock = t
    /\ op[t].name = "set"
    /\ Store(set_insert(Snapshot, op[t].key, op[t].value, op[t].expiry_time))
    /\ last' = Finished(op[t], RetObject(None), TRUE)
    /\ op' = [op EXCEPT ![t] = NoOp]
    /\ lock' = 0
    /\ tally' = Tally(op[t], pre)
    /\ UNCHANGED <<max_size, now, pre, ncalls, wk>>

\* time.time() advances
Tick ==
    /\ now < MaxTime
    /\ now' = now + 1
    /\ UNCHANGED <<cache, max_size, lock, hits, misses, evictions,
                   expirations, op, last, pre, ncalls, wk, tally>>

Next ==
    \/ Tick
    \/ \E t \in Threads :
          \/ GetCall(t) \/ SetCall(t) \/ DeleteCall(t) \/ ExistsCall(t)
          \/ ContainsCall(t) \/ SizeCall(t) \/ ClearCall(t) \/ KeysCall(t)
          \/ StatsCall(t) \/ SetInsert(t)

Spec == Init /\ [][Next]_vars

(* ---------------------------- stats() on its own ----------------------- *)
\* counts of hits and misses whose rate lies halfway between two hundredths
\* of a percent: 3.125, 9.375, 14.375, 30.625, 31.875
RateTies == {<<1, 31>>, <<3, 29>>, <<23, 137>>, <<49, 111>>, <<51, 109>>}

\* the counts of hits and misses stats is called with
StatsCounts == ((0..MaxCount) \X (0..MaxCount)) \union RateTies

\* stats() as a function of the counters: the instance has served calls that
\* left any counts up to MaxCount, or counts with a rate halfway between two
\* hundredths, and zero or one entry, and stats is called.
InitStats ==
    /\ \E m \in CtorArgs : VelocityCache(m).tag = "instance" /\ max_size = m
    /\ cache \in {<<>>, <<Entry("a", Some(1), None)>>}
    /\ lock = 0
    /\ \E c \in StatsCounts : hits = c[1] /\ misses = c[2]
    /\ evictions \in 0..1
    /\ expirations \in 0..1
    /\ now = 0
    /\ op = [t \in Threads |-> NoOp]
    /\ last = NoLast
    /\ pre = NoPre
    /\ ncalls = 0
    /\ wk = [t \in Threads |-> NoWorker]
    /\ tally = [NoTally EXCEPT !.gets = hits + misses,
                              !.inserts = Len(cache) + evictions + expirations]

NextStats == \E t \in Threads : StatsCall(t)

SpecStats == InitStats /\ [][NextStats]_vars

(* ---------------------------- worker threads --------------------------- *)
\* test_concurrent_access: every thread runs worker(thread_id), MaxRounds
\* rounds of set(key, value); get(key) on keys of its own.  Here the body of
\* a method is the sequence of its statements, and `with self._lock` is a
\* step that waits for the lock.
WorkerKey(t, i) ==
    << <<"key_1_1", "key_1_2", "key_1_3">>,
       <<"key_2_1", "key_2_2", "key_2_3">>,
       <<"key_3_1", "key_3_2", "key_3_3">> >>[t][i]

WorkerValue(t, i) == Some(10 * t + i)

\* the capacities the workers meet: small ones, and room for every key
WorkerSizes == (1..MaxMaxSize) \union {NumThreads * MaxRounds}

InitWorkers ==
    /\ \E m \in WorkerSizes : Constructed(VelocityCache(m))
    /\ now = 0
    /\ op = [t \in Threads |-> NoOp]
    /\ last = NoLast
    /\ pre = NoPre
    /\ ncalls = 0
    /\ wk = [t \in Threads |->
                [pc |-> "set_lock", round |-> 1, item |-> None,
                 results |-> <<>>, errors |-> <<>>]]
    /\ tally = NoTally

\* faulty variant: the body is entered whoever holds the lock
WAcquireMut(t, c) ==
    /\ lock' = t
    /\ pre' = Snapshot
    /\ op' = [op EXCEPT ![t] = c]

\* `with self._lock:` entered by thread t for the call c
WAcquire(t, c) ==
    /\ lock = 0
    /\ lock' = t
    /\ pre' = Snapshot
    /\ op' = [op EXCEPT ![t] = c]

\* the call raises in the validation: worker's except clause ends the loop
WRaise(t) ==
    /\ wk' = [wk EXCEPT ![t].pc = "done",
                        ![t].errors = Append(@, "ValueError")]
    /\ UNCHANGED <<cache, max_size, lock, hits, misses, evictions,
                   expirations, now, op, last, pre, ncalls, tally>>

\* the body of the call with frame c ends in state S and returns r: the
\* lock is released and the thread goes on as w
WReturnAt(t, c, S, r, w) ==
    /\ Store(S)
    /\ last' = Finished(c, r, TRUE)
    /\ lock' = 0
    /\ op' = [op EXCEPT ![t] = NoOp]
    /\ wk' = [wk EXCEPT ![t] = w]
    /\ tally' = Tally(c, pre)
    /\ UNCHANGED <<max_size, now, pre, ncalls>>

WReturn(t, S, r, w) == WReturnAt(t, op[t], S, r, w)

\* a statement of the body that keeps the lock and leaves the frame as c:
\* the thread goes on as w
WStepAt(t, c, S, w) ==
    /\ Store(S)
    /\ op' = [op EXCEPT ![t] = c]
    /\ wk' = [wk EXCEPT ![t] = w]
    /\ UNCHANGED <<max_size, lock, now, last, pre, ncalls, tally>>

WStep(t, S, w) == WStepAt(t, op[t], S, w)

\* the frame once `time.time() > expiry_time` has been evaluated for item
Checked(t) ==
    [op[t] EXCEPT !.clock = IF wk[t].item[1].expiry_time # None
                            THEN Some(now) ELSE None]

\* a thread that makes single calls is idle after a return
AfterCall(t) == [wk[t] EXCEPT !.pc = "idle", !.item = None]

\* worker, line 226: after cache.set comes cache.get
AfterSet(t) ==
    IF wk[t].round = 0 THEN AfterCall(t)
    ELSE [wk[t] EXCEPT !.pc = "get_lock"]

\* worker, lines 225-233: retrieved == value is recorded, the loop goes on
AfterGet(t, r) ==
    IF wk[t].round = 0 THEN AfterCall(t)
    ELSE [wk[t] EXCEPT
            !.results = Append(@, r = RetObject(WorkerValue(t, wk[t].round))),
            !.item = None,
            !.round = IF @ < MaxRounds THEN @ + 1 ELSE @,
            !.pc = IF wk[t].round < MaxRounds THEN "set_lock" ELSE "done"]

\* cache.set(key, value): lines 101-107
WSetLock(t) ==
    /\ wk[t].pc = "set_lock"
    /\ LET k == WorkerKey(t, wk[t].round)
           v == WorkerValue(t, wk[t].round)
       IN IF k = ""
          THEN WRaise(t)
          ELSE /\ WAcquire(t, Call("set", k, v, None))
               /\ wk' = [wk EXCEPT ![t].pc = "set_check"]
               /\ UNCHANGED <<cache, max_size, hits, misses, evictions,
                              expirations, now, last, ncalls, tally>>

\* set, lines 113-119
WSetCheck(t) ==
    /\ wk[t].pc = "set_check"
    /\ lock = t
    /\ IF InCache(cache, op[t].key)
       THEN WReturn(t, set_update(Snapshot, op[t].key, op[t].value,
                                  op[t].expiry_time),
                    RetObject(None), AfterSet(t))
       ELSE WStep(t, Snapshot,
                  [wk[t] EXCEPT !.pc = IF AtCapacity(cache, max_size)
                                       THEN "set_pop" ELSE "set_store"])

\* set, lines 121-122
WSetPop(t) ==
    /\ wk[t].pc = "set_pop"
    /\ lock = t
    /\ WStep(t, set_evict(Snapshot), [wk[t] EXCEPT !.pc = "set_store"])

\* set, line 123
WSetStore(t) ==
    /\ wk[t].pc = "set_store"
    /\ lock = t
    /\ WReturn(t, set_insert(Snapshot, op[t].key, op[t].value,
                             op[t].expiry_time),
               RetObject(None), AfterSet(t))

\* cache.get(key): lines 66-69
WGetLock(t) ==
    /\ wk[t].pc = "get_lock"
    /\ LET k == WorkerKey(t, wk[t].round)
       IN IF k = ""
          THEN WRaise(t)
          ELSE /\ WAcquire(t, [Call("get", k, None, None)
                                  EXCEPT !.clock = ClockRead(cache, k, now)])
               /\ wk' = [wk EXCEPT ![t].pc = "get_find"]
               /\ UNCHANGED <<cache, max_size, hits, misses, evictions,
                              expirations, now, last, ncalls, tally>>

\* get, lines 70-74
WGetFind(t) ==
    /\ wk[t].pc = "get_find"
    /\ lock = t
    /\ IF ~InCache(cache, op[t].key)
       THEN WReturn(t, [Snapshot EXCEPT !.misses = @ + 1], RetObject(None),
                    AfterGet(t, RetObject(None)))
       ELSE WStep(t, Snapshot,
                  [wk[t] EXCEPT !.pc = "get_check",
                                !.item = Some(Lookup(cache, op[t].key))])

\* faulty variant: the return for an expired key leaves the lock held
WGetCheckMut(t) ==
    /\ wk[t].pc = "get_check"
    /\ lock = t
    /\ IF IsExpired(wk[t].item[1].expiry_time, now)
       THEN /\ Store([Snapshot EXCEPT !.cache = DelKey(cache, op[t].key),
                                      !.misses = @ + 1,
                                      !.expirations = @ + 1])
            /\ last' = Finished(Checked(t), RetObject(None), TRUE)
            /\ op' = [op EXCEPT ![t] = NoOp]
            /\ wk' = [wk EXCEPT ![t] = AfterGet(t, RetObject(None))]
            /\ tally' = Tally(Checked(t), pre)
            /\ UNCHANGED <<max_size, lock, now, pre, ncalls>>
       ELSE WStepAt(t, Checked(t), Snapshot, [wk[t] EXCEPT !.pc = "get_hit"])

\* get, lines 77-81
WGetCheck(t) ==
    /\ wk[t].pc = "get_check"
    /\ lock = t
    /\ IF IsExpired(wk[t].item[1].expiry_time, now)
       THEN WReturnAt(t, Checked(t),
                      [Snapshot EXCEPT !.cache = DelKey(cache, op[t].key),
                                       !.misses = @ + 1,
                                       !.expirations = @ + 1],
                      RetObject(None), AfterGet(t, RetObject(None)))
       ELSE WStepAt(t, Checked(t), Snapshot, [wk[t] EXCEPT !.pc = "get_hit"])

\* get, lines 84-86
WGetHit(t) ==
    /\ wk[t].pc = "get_hit"
    /\ lock = t
    /\ WReturn(t, [Snapshot EXCEPT !.cache = move_to_end(cache, op[t].key),
                                   !.hits = @ + 1],
               RetObject(wk[t].item[1].value),
               AfterGet(t, RetObject(wk[t].item[1].value)))

NextWorkers ==
    \E t \in Threads :
       \/ WSetLock(t) \/ WSetCheck(t) \/ WSetPop(t) \/ WSetStore(t)
       \/ WGetLock(t) \/ WGetFind(t) \/ WGetCheck(t) \/ WGetHit(t)

SpecWorkers == InitWorkers /\ [][NextWorkers]_vars

(* ---------------------------- calling threads -------------------------- *)
\* Threads that call get, set and delete as they like, up to MaxCalls calls
\* in all, while the clock advances.  A call is invoked, waits for the lock,
\* and executes the statements of its body.

\* delete, lines 143-145
WDeletePop(t) ==
    /\ wk[t].pc = "delete_pop"
    /\ lock = t
    /\ IF ~InCache(cache, op[t].key)
       THEN WReturn(t, Snapshot, RetObject(None), AfterCall(t))
       ELSE WStep(t, [Snapshot EXCEPT !.cache = DelKey(cache, op[t].key)],
                  [wk[t] EXCEPT !.pc = "delete_check",
                                !.item = Some(Lookup(cache, op[t].key))])

\* delete, lines 147-154
WDeleteCheck(t) ==
    /\ wk[t].pc = "delete_check"
    /\ lock = t
    /\ IF IsExpired(wk[t].item[1].expiry_time, now)
       THEN WReturnAt(t, Checked(t),
                      [Snapshot EXCEPT !.expirations = @ + 1],
                      RetObject(None), AfterCall(t))
       ELSE WReturnAt(t, Checked(t), Snapshot,
                      RetObject(wk[t].item[1].value), AfterCall(t))

CallerKeys == {"a", "b"}

\* the calls a thread may make
CallerCalls ==
    {Call("get", k, None, None) : k \in CallerKeys \union {""}}
    \union {Call("delete", k, None, None) : k \in CallerKeys}
    \union {Call("set", k, Some(1), l) : k \in CallerKeys, l \in {None, Some(0)}}

InitCallers ==
    /\ \E m \in CtorArgs : Constructed(VelocityCache(m))
    /\ now = 0
    /\ op = [t \in Threads |-> NoOp]
    /\ last = NoLast
    /\ pre = NoPre
    /\ ncalls = 0
    /\ wk = [t \in Threads |->
                [pc |-> "idle", round |-> 0, item |-> None,
                 results |-> <<>>, errors |-> <<>>]]
    /\ tally = NoTally

\* thread t calls a method: the validation raises, or the thread goes on to
\* `with self._lock`
CallerInvoke(t) ==
    /\ wk[t].pc = "idle"
    /\ ncalls < MaxCalls
    /\ ncalls' = ncalls + 1
    /\ \E c \in CallerCalls :
          IF c.key = ""
          THEN /\ last' = Finished(c, RaiseValueError, FALSE)
               /\ UNCHANGED <<op, wk>>
          ELSE /\ op' = [op EXCEPT ![t] = c]
               /\ wk' = [wk EXCEPT ![t].pc = "lock"]
               /\ UNCHANGED last
    /\ UNCHANGED <<cache, max_size, lock, hits, misses, evictions,
                   expirations, now, pre, tally>>

\* `with self._lock:` of the call invoked; set computes expiry_time
\* (lines 109-111)
CallerLock(t) ==
    /\ wk[t].pc = "lock"
    /\ WAcquire(t, [op[t] EXCEPT !.expiry_time = ExpiryOf(op[t].ttl, now)])
    /\ wk' = [wk EXCEPT ![t].pc = IF op[t].name = "set" THEN "set_check"
                                  ELSE IF op[t].name = "get" THEN "get_find"
                                  ELSE "delete_pop"]
    /\ UNCHANGED <<cache, max_size, hits, misses, evictions,
                   expirations, now, last, ncalls, tally>>

\* the steps of thread t once it has invoked a call
CallerRun(t) ==
    \/ CallerLock(t)
    \/ WSetCheck(t) \/ WSetPop(t) \/ WSetStore(t)
    \/ WGetFind(t) \/ WGetCheck(t) \/ WGetHit(t)
    \/ WDeletePop(t) \/ WDeleteCheck(t)

NextCallers ==
    \/ Tick
    \/ \E t \in Threads : CallerInvoke(t) \/ CallerRun(t)

SpecCallers == InitCallers /\ [][NextCallers]_vars

\* the scheduler lets every thread that can take a step take one
FairCallers == SpecCallers /\ \A t \in Threads : WF_vars(CallerRun(t))

(* ---------------------------- properties ------------------------------- *)
\* the last step of the cache was a thread returning from the body of method
\* n: pre is the state that body started from, the variables the state it left
Done(n) == lock = 0 /\ last.held /\ last.op.name = n

\* the four counters are as they were when the lock was taken
SameCounters ==
    /\ hits = pre.hits /\ misses = pre.misses
    /\ evictions = pre.evictions /\ expirations = pre.expirations

\* the entry of the call's key when the lock was taken, and whether the clock
\* value the body read was past its expiry
PreStored == InCache(pre.cache, last.op.key)
PreEntry == Lookup(pre.cache, last.op.key)
PastExpiry ==
    /\ PreEntry.expiry_time # None
    /\ last.op.clock # None
    /\ last.op.clock[1] > PreEntry.expiry_time[1]

\* C1: in every reachable state, also between the eviction and the insertion
\* of a set, the number of stored entries is between 0 and max_size, and
\* size() never returns a number outside that range.
C1_SizeWithinCapacity ==
    /\ Len(cache) >= 0
    /\ Len(cache) <= max_size
    /\ last.ret.tag = "int" => (last.ret.val >= 0 /\ last.ret.val <= max_size)

\* a set of a new key on a full cache has evicted and not yet inserted
C1_Witness ==
    \E t \in Threads :
       /\ lock = t
       /\ op[t].name = "set"
       /\ ~InCache(pre.cache, op[t].key)
       /\ Len(pre.cache) = max_size
       /\ Len(cache) = max_size - 1
       /\ evictions = pre.evictions + 1

\* the spec's example run, computed with the method bodies: max_size = 3,
\* set(a); set(b); set(c); get(a); set(d)
C2_Example ==
    LET S1 == set_body(NoPre, "a", Some(1), None, 3).st
        S2 == set_body(S1, "b", Some(1), None, 3).st
        S3 == set_body(S2, "c", Some(1), None, 3).st
        S4 == get_body(S3, "a", 0).st
        S5 == set_body(S4, "d", Some(1), None, 3).st
    IN /\ KeyList(S5.cache) = <<"c", "a", "d">>
       /\ S5.evictions = 1
       /\ get_body(S5, "b", 0).ret = RetObject(None)
       /\ get_body(S5, "b", 0).st.misses = S5.misses + 1
       /\ \A k \in {"a", "c", "d"} : get_body(S5, k, 0).ret = RetObject(Some(1))

\* C2: set(k, v) of a key that is not stored, on a full cache, removes exactly
\* the first entry of keys(), adds 1 to evictions, keeps the other entries in
\* their order and appends k at the most-recently-used end.
C2_EvictsFirstKey ==
    /\ C2_Example
    /\ (Done("set") /\ ~PreStored /\ Len(pre.cache) = max_size)
       => /\ cache = Append(Tail(pre.cache),
                            Entry(last.op.key, last.op.value, last.op.expiry_time))
          /\ ~InCache(cache, pre.cache[1].key)
          /\ evictions = pre.evictions + 1
          /\ hits = pre.hits /\ misses = pre.misses
          /\ expirations = pre.expirations

\* a full cache of two entries received a new key
C2_Witness ==
    /\ Done("set")
    /\ ~PreStored
    /\ Len(pre.cache) = 2 /\ max_size = 2
    /\ evictions = pre.evictions + 1
    /\ KeyList(cache) = <<pre.cache[2].key, last.op.key>>

\* C3: right after set(k, v) or set(k, v, ttl), from any prior state, a get(k)
\* at any clock value not past the entry's expiry returns v and counts a hit.
C3_SetThenGet ==
    Done("set") =>
       \A clock \in now..(MaxTime + 1) :
          (last.op.expiry_time = None \/ clock <= last.op.expiry_time[1])
          => LET g == get_body(Snapshot, last.op.key, clock)
             IN /\ g.ret = RetObject(last.op.value)
                /\ g.st.hits = hits + 1
                /\ g.st.misses = misses

\* a set with a ttl of a new key on a full cache has returned
C3_Witness ==
    /\ Done("set")
    /\ last.op.ttl = Some(0)
    /\ last.op.expiry_time = Some(now)
    /\ ~PreStored
    /\ Len(pre.cache) = max_size

\* C4: set on a stored key, also on a full cache, overwrites the value and the
\* expiry, moves the key to the most-recently-used end and leaves the size,
\* the four counters and every other entry as they were.
C4_UpdateNeverEvicts ==
    (Done("set") /\ PreStored)
    => /\ cache = Append(DelKey(pre.cache, last.op.key),
                         Entry(last.op.key, last.op.value, last.op.expiry_time))
       /\ Len(cache) = Len(pre.cache)
       /\ SameCounters

\* a full cache of two entries had its first key overwritten with a new value
C4_Witness ==
    /\ Done("set")
    /\ Len(pre.cache) = 2 /\ max_size = 2
    /\ pre.cache[1].key = last.op.key
    /\ pre.cache[1].value # last.op.value
    /\ cache[2].key = last.op.key

\* the test's example, computed with the method bodies: keys() = [a, b, c],
\* get(a) gives [b, c, a] and set(b, ...) then gives [c, a, b]
C5_Example ==
    LET S1 == set_body(NoPre, "a", Some(1), None, 3).st
        S2 == set_body(S1, "b", Some(1), None, 3).st
        S3 == set_body(S2, "c", Some(1), None, 3).st
        S4 == get_body(S3, "a", 0).st
        S5 == set_body(S4, "b", None, None, 3).st
    IN /\ KeyList(S3.cache) = <<"a", "b", "c">>
       /\ KeyList(S4.cache) = <<"b", "c", "a">>
       /\ KeyList(S5.cache) = <<"c", "a", "b">>

\* C5: get of a stored key that is not expired returns the stored value, moves
\* the key to the last position with the other entries in their order, adds 1
\* to hits and changes no other counter, value or expiry.
C5_GetHit ==
    /\ C5_Example
    /\ (Done("get") /\ PreStored /\ ~PastExpiry)
       => /\ last.ret = RetObject(PreEntry.value)
          /\ cache = Append(DelKey(pre.cache, last.op.key), PreEntry)
          /\ hits = pre.hits + 1
          /\ misses = pre.misses
          /\ evictions = pre.evictions
          /\ expirations = pre.expirations

\* a get hit the first of two entries, one that carries an expiry
C5_Witness ==
    /\ Done("get")
    /\ Len(pre.cache) = 2
    /\ pre.cache[1].key = last.op.key
    /\ pre.cache[1].expiry_time # None
    /\ hits = pre.hits + 1
    /\ cache[2].key = last.op.key

\* C6: get of a stored key at a clock value strictly later than its expiry
\* returns None, removes the entry, adds 1 to misses and 1 to expirations and
\* leaves hits and evictions; a second get right after counts only a miss.
C6_GetExpired ==
    (Done("get") /\ PreStored /\ PastExpiry)
    => /\ last.ret = RetObject(None)
       /\ cache = DelKey(pre.cache, last.op.key)
       /\ misses = pre.misses + 1
       /\ expirations = pre.expirations + 1
       /\ hits = pre.hits
       /\ evictions = pre.evictions
       /\ \A clock \in now..(MaxTime + 1) :
             LET g == get_body(Snapshot, last.op.key, clock)
             IN /\ g.ret = RetObject(None)
                /\ g.st = [Snapshot EXCEPT !.misses = @ + 1]

\* a get found its key expired next to another entry
C6_Witness ==
    /\ Done("get")
    /\ Len(pre.cache) = 2
    /\ PreStored
    /\ ~InCache(cache, last.op.key)
    /\ expirations = pre.expirations + 1

\* C7: an entry stored without a ttl is never treated as expired, at any clock
\* value: get returns its value and counts a hit, exists returns True, delete
\* returns its value, and none of them adds to expirations because of it.
C7_NoTtlNeverExpires ==
    /\ \A i \in 1..Len(cache) :
          cache[i].expiry_time = None =>
             \A clock \in 0..(MaxTime + 2) :
                LET k == cache[i].key
                    g == get_body(Snapshot, k, clock)
                    x == exists_body(Snapshot, k, clock)
                    d == delete_body(Snapshot, k, clock)
                IN /\ g.ret = RetObject(cache[i].value)
                   /\ g.st.hits = hits + 1
                   /\ g.st.expirations = expirations
                   /\ x.ret = RetBool(TRUE)
                   /\ x.st = Snapshot
                   /\ d.ret = RetObject(cache[i].value)
                   /\ d.st.expirations = expirations
    /\ \A n \in {"get", "exists", "delete"} :
          (Done(n) /\ PreStored /\ PreEntry.expiry_time = None)
          => /\ expirations = pre.expirations
             /\ n = "get" =>
                   (last.ret = RetObject(PreEntry.value) /\ hits = pre.hits + 1)
             /\ n = "exists" => last.ret = RetBool(TRUE)
             /\ n = "delete" => last.ret = RetObject(PreEntry.value)

\* a get hit an entry that has no expiry after the clock had advanced (the
\* entry next to it was set at a clock value above 0)
C7_Witness ==
    /\ Done("get")
    /\ PreStored
    /\ PreEntry.expiry_time = None
    /\ hits = pre.hits + 1
    /\ \E i \in 1..Len(pre.cache) :
          pre.cache[i].expiry_time # None /\ pre.cache[i].expiry_time[1] > 0

\* C8: delete of a stored key removes the entry, returning the value and
\* changing no counter when it is not expired, returning None and adding 1 to
\* expirations when it is; delete of a key that is not stored changes nothing;
\* hits, misses, evictions and the order of the other keys never change.
C8_Delete ==
    Done("delete") =>
       /\ hits = pre.hits /\ misses = pre.misses /\ evictions = pre.evictions
       /\ IF ~PreStored
          THEN /\ last.ret = RetObject(None)
               /\ cache = pre.cache
               /\ expirations = pre.expirations
          ELSE /\ cache = DelKey(pre.cache, last.op.key)
               /\ IF PastExpiry
                  THEN /\ last.ret = RetObject(None)
                       /\ expirations = pre.expirations + 1
                  ELSE /\ last.ret = RetObject(PreEntry.value)
                       /\ expirations = pre.expirations

\* a delete removed an expired entry and left the other one
C8_Witness ==
    /\ Done("delete")
    /\ Len(pre.cache) = 2
    /\ PreStored
    /\ PastExpiry
    /\ Len(cache) = 1
    /\ expirations = pre.expirations + 1

\* C9: exists returns True exactly for a stored key that is not expired; on a
\* stored expired key it removes the entry and adds 1 to expirations; it never
\* changes hits, misses or the order of the remaining keys.
C9_Exists ==
    /\ (last.op.name = "exists" /\ last.op.key = "")
          => (last.ret = RetBool(FALSE) /\ ~last.held)
    /\ Done("exists") =>
          /\ hits = pre.hits /\ misses = pre.misses
          /\ evictions = pre.evictions
          /\ last.ret = RetBool(PreStored /\ ~PastExpiry)
          /\ IF PreStored /\ PastExpiry
             THEN /\ cache = DelKey(pre.cache, last.op.key)
                  /\ expirations = pre.expirations + 1
             ELSE /\ cache = pre.cache
                  /\ expirations = pre.expirations

\* exists returned True for the first of two entries
C9_Witness ==
    /\ Done("exists")
    /\ Len(pre.cache) = 2
    /\ pre.cache[1].key = last.op.key
    /\ last.ret = RetBool(TRUE)

\* C10: contains returns True exactly when the key is stored, whatever its
\* expiry, and changes nothing; for an entry that is expired but still stored
\* contains is True where exists, in the same state, is False.
C10_Contains ==
    /\ Done("contains") =>
          /\ last.ret = RetBool(PreStored)
          /\ cache = pre.cache
          /\ SameCounters
    /\ \A i \in 1..Len(cache) :
          (cache[i].expiry_time # None /\ now > cache[i].expiry_time[1])
          => /\ contains_body(Snapshot, cache[i].key)
                   = Result(Snapshot, RetBool(TRUE))
             /\ exists_body(Snapshot, cache[i].key, now).ret = RetBool(FALSE)

\* contains returned True for an entry that was past its expiry when it was
\* called (the entry next to it was set at a later clock value)
C10_Witness ==
    /\ Done("contains")
    /\ last.ret = RetBool(TRUE)
    /\ PreStored
    /\ PreEntry.expiry_time # None
    /\ \E i \in 1..Len(pre.cache) :
          /\ pre.cache[i].expiry_time # None
          /\ pre.cache[i].expiry_time[1] > PreEntry.expiry_time[1]

\* the counters and the entries as a step leaves them
SameGuarded == UNCHANGED <<cache, hits, misses, evictions, expirations>>

\* C11: clear() leaves the cache empty, so that size() is 0 and every key
\* stored before is absent for get and for contains, and it leaves hits,
\* misses, evictions and expirations as they were.
C11_Clear ==
    Done("clear") =>
       /\ cache = <<>>
       /\ size_body(Snapshot).ret.val = 0
       /\ SameCounters
       /\ \A i \in 1..Len(pre.cache), clock \in now..(MaxTime + 1) :
             /\ get_body(Snapshot, pre.cache[i].key, clock).ret = RetObject(None)
             /\ contains_body(Snapshot, pre.cache[i].key).ret = RetBool(FALSE)

\* clear emptied a cache that held an entry and had counted a hit or a miss
C11_Witness ==
    /\ Done("clear")
    /\ Len(pre.cache) >= 1
    /\ pre.hits + pre.misses >= 1
    /\ cache = <<>>

\* the frame of the call a step begins, when it begins one: the call that
\* finished in the step, or the set that has evicted and holds the lock
Begun == IF lock' # lock THEN op'[lock'] ELSE last'.op

\* the arguments the validation refuses
Refused(c) ==
    \/ c.name \in {"get", "set", "delete", "exists"} /\ c.key = ""
    \/ c.name = "set" /\ c.ttl # None /\ c.ttl[1] < 0

\* C12: get, set and delete with an empty key and set with a negative ttl
\* raise ValueError, exists with an empty key returns False, and in each case
\* the entries, their order and the four counters stay as they were; every
\* other call goes on to the body.
C12_InvalidArguments ==
    [][ncalls' = ncalls + 1 =>
          IF Refused(Begun)
          THEN /\ lock' = lock
               /\ ~last'.held
               /\ last'.ret = IF last'.op.name = "exists" THEN RetBool(FALSE)
                              ELSE RaiseValueError
               /\ SameGuarded
               /\ max_size' = max_size
          ELSE last'.held \/ lock' # lock]_vars

\* a set with a negative ttl of a new key was refused on a full cache that
\* has never evicted
C12_Witness ==
    /\ lock = 0
    /\ ~last.held
    /\ last.op.name = "set"
    /\ last.op.key # ""
    /\ last.op.ttl = Some(-1)
    /\ last.ret = RaiseValueError
    /\ ~InCache(cache, last.op.key)
    /\ Len(cache) = max_size
    /\ evictions = 0

\* the constructor refuses exactly the values that are not positive, and an
\* instance starts empty with its counters at 0
C13_Constructor ==
    \A m \in CtorArgs :
       IF m <= 0
       THEN VelocityCache(m) = RaiseValueError
       ELSE VelocityCache(m) =
               [tag |-> "instance", max_size |-> m, cache |-> <<>>, lock |-> 0,
                hits |-> 0, misses |-> 0, evictions |-> 0, expirations |-> 0]

\* C13: a max_size <= 0 makes the constructor raise ValueError; the max_size
\* of an instance is a positive integer, the instance starts empty with the
\* four counters at 0, and no step changes max_size.
C13_MaxSize ==
    /\ [](/\ C13_Constructor
          /\ max_size \in Nat /\ max_size > 0
          /\ ncalls = 0 => (cache = <<>> /\ hits = 0 /\ misses = 0
                            /\ evictions = 0 /\ expirations = 0))
    /\ [][max_size' = max_size]_vars

\* an instance of the largest capacity has served MaxCalls calls and is full
C13_Witness ==
    /\ max_size = MaxMaxSize
    /\ ncalls = MaxCalls
    /\ Len(cache) = max_size
    /\ lock = 0

\* the statement as the invariants list has it: a successful get, set or
\* exists on a stored live key leaves that key last in keys()
C14_Original ==
    \A n \in {"get", "set", "exists"} :
       (Done(n) /\ PreStored /\ ~PastExpiry)
       => cache[Len(cache)].key = last.op.key

\* C14: a successful get or set on a stored live key leaves that key last in
\* keys(); a successful exists leaves keys() as it was.
C14_Repositions ==
    /\ \A n \in {"get", "set"} :
          (Done(n) /\ PreStored /\ ~PastExpiry)
          => /\ cache[Len(cache)].key = last.op.key
             /\ KeyList(cache) = KeyList(Append(DelKey(pre.cache, last.op.key),
                                                PreEntry))
    /\ (Done("exists") /\ PreStored /\ ~PastExpiry)
          => /\ last.ret = RetBool(TRUE)
             /\ KeyList(cache) = KeyList(pre.cache)

\* exists returned True for the first of two keys and the key is still first
C14_Witness ==
    /\ Done("exists")
    /\ last.ret = RetBool(TRUE)
    /\ Len(pre.cache) = 2
    /\ pre.cache[1].key = last.op.key
    /\ cache[1].key = last.op.key
    /\ cache[2].key # last.op.key

\* C15: no step of any call, clear, delete and the refused calls included,
\* lowers or resets hits, misses, evictions or expirations.
C15_Monotonic ==
    [][/\ hits' >= hits
       /\ misses' >= misses
       /\ evictions' >= evictions
       /\ expirations' >= expirations]_vars

\* clear returned on an instance that had evicted, and the count is kept
C15_Witness ==
    /\ Done("clear")
    /\ pre.evictions >= 1
    /\ evictions = pre.evictions
    /\ Len(pre.cache) >= 1

\* what the workers have recorded
AllResults == \A t \in Threads : \A i \in 1..Len(wk[t].results) : wk[t].results[i]
NoErrors == \A t \in Threads : wk[t].errors = <<>>

\* C16: when threads each run set(k, v); get(k) on keys of their own, every
\* get returns the value its thread has just set and nothing raises, under
\* every interleaving and also when the keys of all threads together exceed
\* max_size: what test_concurrent_access asserts with all(results) and
\* len(errors) == 0.
C16_Original == AllResults /\ NoErrors

\* the capacity is above one entry and below the number of keys, as in the
\* test (100 against 250); a set of another thread has evicted the key a
\* worker had set, the worker's get has returned None and the worker has
\* recorded False; nothing was raised
C16_Witness ==
    /\ 1 < max_size
    /\ max_size < NumThreads * MaxRounds
    /\ NoErrors
    /\ evictions >= 1
    /\ \E t \in Threads :
          /\ wk[t].results # <<>>
          /\ ~wk[t].results[Len(wk[t].results)]
          /\ Done("get")
          /\ last.op.key = WorkerKey(t, Len(wk[t].results))
          /\ last.ret = RetObject(None)
          /\ ~InCache(pre.cache, last.op.key)

\* thread t is executing statements of a body
InBody(t) ==
    wk[t].pc \in {"set_check", "set_pop", "set_store",
                  "get_find", "get_check", "get_hit"}

\* C17: at most one thread is inside a body; the statements of a body,
\* executed one by one, leave the state and return the value that the body
\* as a whole gives on the state at the acquisition of the lock, so the run
\* equals the calls executed one after another in the order of acquisition,
\* which keeps each thread's program order.
C17_Serialized ==
    /\ Cardinality({t \in Threads : InBody(t)}) <= 1
    /\ \A t \in Threads : InBody(t) <=> lock = t
    /\ Done("set") =>
          Result(Snapshot, last.ret)
             = set_body(pre, last.op.key, last.op.value, last.op.expiry_time,
                        max_size)
    /\ Done("get") =>
          Result(Snapshot, last.ret) = get_body(pre, last.op.key, now)
    /\ \A t \in Threads :
          wk[t].pc \in {"get_lock", "get_find", "get_check", "get_hit"}
          => Len(wk[t].results) = wk[t].round - 1

\* all workers have finished after runs in which a set of one thread evicted
\* and a get of another missed
C17_Witness ==
    /\ \A t \in Threads : wk[t].pc = "done"
    /\ lock = 0
    /\ evictions >= 1
    /\ misses >= 1
    /\ hits >= 1
    /\ hits + misses = NumThreads * MaxRounds

\* the characters "0".."9" as numbers, and the number a text
\* <digits>.<digit><digit>% stands for, in hundredths
DigitValue(ch) == CHOOSE d \in 0..9 : DigitChar(d) = ch
RECURSIVE Whole(_)
Whole(ds) ==
    IF ds = <<>> THEN 0
    ELSE 10 * Whole(SubSeq(ds, 1, Len(ds) - 1)) + DigitValue(ds[Len(ds)])
IsPercentText(s) ==
    /\ Len(s) >= 5
    /\ s[Len(s)] = "%"
    /\ s[Len(s) - 3] = "."
    /\ \A i \in (1..(Len(s) - 4)) \union {Len(s) - 2, Len(s) - 1} :
          \E d \in 0..9 : s[i] = DigitChar(d)
    /\ Len(s) > 5 => s[1] # "0"
Cents(s) ==
    100 * Whole(SubSeq(s, 1, Len(s) - 4))
       + 10 * DigitValue(s[Len(s) - 2]) + DigitValue(s[Len(s) - 1])

\* hit rates as Python prints them; the last five lie halfway between two
\* hundredths, where the float computed is the rate itself in the first two
\* and a neighbour of it in the others
C18_Example ==
    /\ HitRateText(0, 0) = <<"0", ".", "0", "0", "%">>
    /\ HitRateText(0, 3) = <<"0", ".", "0", "0", "%">>
    /\ HitRateText(1, 2) = <<"3", "3", ".", "3", "3", "%">>
    /\ HitRateText(2, 1) = <<"6", "6", ".", "6", "7", "%">>
    /\ HitRateText(1, 7) = <<"1", "2", ".", "5", "0", "%">>
    /\ HitRateText(4, 0) = <<"1", "0", "0", ".", "0", "0", "%">>
    /\ HitRateText(1, 31) = <<"3", ".", "1", "2", "%">>
    /\ HitRateText(3, 29) = <<"9", ".", "3", "8", "%">>
    /\ HitRateText(23, 137) = <<"1", "4", ".", "3", "7", "%">>
    /\ HitRateText(49, 111) = <<"3", "0", ".", "6", "3", "%">>
    /\ HitRateText(51, 109) = <<"3", "1", ".", "8", "7", "%">>

\* C18: stats() reports hit_rate "0.00%" when hits + misses is 0, whatever the
\* other counters, and otherwise the hundredth of a percent nearest to
\* hits / (hits + misses) * 100; hits, misses, evictions and expirations are
\* the counters, size is size() and max_size the constructor's value; stats
\* changes nothing.
C18_Stats ==
    /\ C18_Example
    /\ Done("stats") =>
          LET d == last.ret.val
              total == hits + misses
          IN /\ d.hits = hits /\ d.misses = misses
             /\ d.evictions = evictions /\ d.expirations = expirations
             /\ d.size = size_body(Snapshot).ret.val
             /\ d.max_size = max_size
             /\ cache = pre.cache /\ SameCounters
             /\ IsPercentText(d.hit_rate)
             /\ total = 0 => d.hit_rate = <<"0", ".", "0", "0", "%">>
             /\ total > 0 =>
                   LET diff == Cents(d.hit_rate) * total - 100 * 100 * hits
                   IN /\ 2 * diff <= total
                      /\ 2 * diff >= 0 - total

\* stats reported 14.37% for 23 hits and 137 misses, a rate of 14.375, on an
\* instance that has evicted
C18_Witness ==
    /\ Done("stats")
    /\ hits = 23 /\ misses = 137
    /\ evictions = 1
    /\ last.ret.val.hit_rate = <<"1", "4", ".", "3", "7", "%">>
    /\ last.ret.val.size = Len(cache)

\* max_size = 2: a is set with ttl 0 at clock 0 and b is set, then at clock 1
\* c is set: a, expired, goes as an eviction; and the same with a stored
\* without ttl and b with ttl 0: a, live, goes and b, expired, stays
C19_Example ==
    LET A1 == set_body(NoPre, "a", Some(1), Some(0), 2).st
        A2 == set_body(A1, "b", Some(1), None, 2).st
        A3 == set_body(A2, "c", Some(1), None, 2).st
        B1 == set_body(NoPre, "a", Some(1), None, 2).st
        B2 == set_body(B1, "b", Some(1), Some(0), 2).st
        B3 == set_body(B2, "c", Some(1), None, 2).st
    IN /\ KeyList(A3.cache) = <<"b", "c">>
       /\ A3.evictions = 1 /\ A3.expirations = 0
       /\ KeyList(B3.cache) = <<"b", "c">>
       /\ B3.cache[1].expiry_time = Some(0)
       /\ B3.evictions = 1 /\ B3.expirations = 0

\* C19: a set of a new key on a full cache removes the first key of keys()
\* whether that entry has expired or not, and keeps every other entry, the
\* expired ones too; the removal adds exactly 1 to evictions and nothing to
\* expirations, already in the state between the removal and the insertion.
C19_EvictionIgnoresExpiry ==
    /\ C19_Example
    /\ \A t \in Threads :
          (lock = t /\ op[t].name = "set")
          => /\ cache = Tail(pre.cache)
             /\ evictions = pre.evictions + 1
             /\ expirations = pre.expirations
    /\ (Done("set") /\ ~PreStored /\ Len(pre.cache) = max_size)
          => /\ Len(cache) = max_size
             /\ \A i \in 2..Len(pre.cache) : cache[i - 1] = pre.cache[i]
             /\ cache[Len(cache)].key = last.op.key
             /\ evictions = pre.evictions + 1
             /\ expirations = pre.expirations

\* a set at a clock value past the expiry of the second entry evicted the
\* first entry, which has no expiry, and the expired one is still stored
C19_Witness ==
    /\ Done("set")
    /\ ~PreStored
    /\ max_size = 2 /\ Len(pre.cache) = 2
    /\ pre.cache[1].expiry_time = None
    /\ pre.cache[2].expiry_time # None
    /\ last.op.expiry_time # None
    /\ last.op.expiry_time[1] > pre.cache[2].expiry_time[1]
    /\ cache[1] = pre.cache[2]
    /\ evictions = pre.evictions + 1
    /\ expirations = pre.expirations

\* C20: a step of the clock alone changes no entry and no counter; size,
\* keys, stats and contains change none either and report the stored entries,
\* expired or not; an entry leaves the cache only in a get, exists or delete
\* of its key, in an eviction, where it is the first, or in a clear.
C20_LazyExpiration ==
    [][/\ now' # now => SameGuarded
       /\ (/\ ncalls' = ncalls + 1
           /\ last'.held
           /\ lock' = lock
           /\ last'.op.name \in {"size", "keys", "stats", "contains"})
          => /\ SameGuarded
             /\ last'.op.name = "size" => last'.ret.val = Len(cache)
             /\ last'.op.name = "keys" => last'.ret.val = KeyList(cache)
             /\ last'.op.name = "stats" => last'.ret.val.size = Len(cache)
             /\ last'.op.name = "contains"
                   => last'.ret.val = InCache(cache, last'.op.key)
       /\ \A i \in 1..Len(cache) :
             ~InCache(cache', cache[i].key)
             => \/ /\ last'.held
                   /\ ncalls' = ncalls + 1
                   /\ lock' = lock
                   /\ \/ last'.op.name = "clear"
                      \/ /\ last'.op.name \in {"get", "exists", "delete"}
                         /\ last'.op.key = cache[i].key
                \/ /\ lock = 0 /\ lock' # 0
                   /\ i = 1
                   /\ evictions' = evictions + 1]_vars

\* size() counted two entries, one of them past its expiry when size was
\* called (the other was set at a later clock value), and both are stored
C20_Witness ==
    /\ Done("size")
    /\ last.ret.val = 2
    /\ cache = pre.cache
    /\ SameCounters
    /\ \E i, j \in 1..Len(cache) :
          /\ cache[i].expiry_time # None
          /\ cache[j].expiry_time # None
          /\ cache[i].expiry_time[1] < cache[j].expiry_time[1]

\* C22: set(k, v2, ttl2) on a stored key whose entry is past its expiry takes
\* the update path: the entry becomes (v2, new expiry or none) at the
\* most-recently-used end, get and exists find it live up to the new expiry,
\* and size, hits, misses, evictions and expirations stay as they were.
C22_SetOnExpired ==
    (/\ Done("set")
     /\ PreStored
     /\ PreEntry.expiry_time # None
     /\ now > PreEntry.expiry_time[1])
    => /\ cache = Append(DelKey(pre.cache, last.op.key),
                         Entry(last.op.key, last.op.value, last.op.expiry_time))
       /\ size_body(Snapshot).ret.val = Len(pre.cache)
       /\ SameCounters
       /\ \A clock \in now..(MaxTime + 1) :
             (last.op.expiry_time = None \/ clock <= last.op.expiry_time[1])
             => /\ get_body(Snapshot, last.op.key, clock).ret
                      = RetObject(last.op.value)
                /\ get_body(Snapshot, last.op.key, clock).st.expirations
                      = pre.expirations
                /\ exists_body(Snapshot, last.op.key, clock).ret = RetBool(TRUE)

\* a set with a ttl, at a clock value past the expiry of the stored entry of
\* its key, has overwritten that entry with another value
C22_Witness ==
    /\ Done("set")
    /\ PreStored
    /\ PreEntry.expiry_time # None
    /\ last.op.expiry_time # None
    /\ last.op.expiry_time[1] > PreEntry.expiry_time[1]
    /\ last.op.value # PreEntry.value
    /\ Len(cache) = Len(pre.cache)
    /\ expirations = pre.expirations

\* C23: in every state the number of returned set calls that inserted a key
\* not stored before equals size() + evictions + expirations + the deletes
\* that removed an entry not expired + the entries removed by clear; a call
\* that is not a clear removes at most one entry and counts it once, as an
\* eviction or as an expiration, never as both.
C23_EntryAccounting ==
    /\ tally.inserts = Len(cache) + evictions + expirations
                          + tally.live_deletes + tally.cleared
    /\ (lock = 0 /\ last.held /\ last.op.name # "clear")
          => /\ (evictions - pre.evictions) + (expirations - pre.expirations)
                   \in {0, 1}
             /\ Len(cache) >= Len(pre.cache) - 1

\* two keys were inserted; one entry went as an eviction or an expiration,
\* the other in a delete or a clear, and the cache is empty
C23_Witness ==
    /\ lock = 0
    /\ tally.inserts = 2
    /\ cache = <<>>
    /\ evictions + expirations = 1
    /\ tally.live_deletes + tally.cleared = 1

\* C24: hits + misses is the number of returned get calls with a non-empty
\* key; such a get adds exactly 1 to exactly one of hits and misses, whichever
\* thread makes it; a refused get and set, delete, exists, contains, size,
\* keys, clear and stats leave hits and misses as they were.
C24_HitsPlusMisses ==
    /\ hits + misses = tally.gets
    /\ Done("get") =>
          \/ hits = pre.hits + 1 /\ misses = pre.misses
          \/ hits = pre.hits /\ misses = pre.misses + 1
    /\ \A n \in {"set", "delete", "exists", "contains", "size", "keys",
                 "clear", "stats"} :
          Done(n) => (hits = pre.hits /\ misses = pre.misses)
    /\ lock # 0 => (hits = pre.hits /\ misses = pre.misses)

\* a set, a get that hit and an exists of the stored key have returned: one
\* get is counted, as a hit, and exists has counted nothing
C24_Witness ==
    /\ Done("exists")
    /\ last.ret = RetBool(TRUE)
    /\ ncalls = 3
    /\ tally.gets = 1
    /\ hits = 1 /\ misses = 0

\* thread t has invoked a call that has not returned
Invoked(t) == wk[t].pc # "idle"

\* C21: under fair scheduling every call a thread has invoked returns, so
\* that from some point on no call is pending (the calls are finitely many):
\* the lock is held only by a thread that is executing a body and is free
\* again after every return, the returns for a missing and for an expired
\* key included; as long as a call is pending some thread can take a step,
\* and no thread waits for the lock forever.
C21_EveryCallReturns ==
    /\ [](/\ \A t \in Threads :
                lock = t <=> (Invoked(t) /\ wk[t].pc # "lock")
          /\ (\E t \in Threads : Invoked(t))
                => ENABLED (\E t \in Threads : CallerRun(t)))
    /\ <>[](\A t \in Threads : ~Invoked(t) /\ lock # t)

\* a get has returned None for an expired key while another thread was
\* waiting for the lock, which is free again
C21_Witness ==
    /\ lock = 0
    /\ last.held
    /\ last.op.name = "get"
    /\ InCache(pre.cache, last.op.key)
    /\ expirations = pre.expirations + 1
    /\ \E t \in Threads : wk[t].pc = "lock"
====
